---- MODULE Spec2Model ----
(***************************************************************************)
(* Model of standard_analysis.py: the analysis functions that restore a    *)
(* trained network, run forward passes on generated trials and plot the    *)
(* activity.  One call of one function is modelled from its entry to its   *)
(* return or to the exception that leaves it.                              *)
(*                                                                         *)
(* Python values: None is the string "None"; a str is a sequence of        *)
(* one-character strings, so that iterating and concatenating strings can  *)
(* be told from doing so with lists; an array of shape (T, N, U) is a      *)
(* sequence over time of sequences over conditions of sequences over       *)
(* units, so Python index k is position k+1.                               *)
(***************************************************************************)
EXTENDS Integers, Sequences, FiniteSets, Bags, TLC

\* ------------------------------------------------------------------ bounds
MaxT == 3          \* longest generated trial, in timesteps
MaxN == 2          \* most conditions in one generated batch
NUnits == 2        \* hidden units of the restored network (n_rnn)
MaxVars == 3       \* longest trainable-variable list of the network

None == "None"
\* None where the code expects a time index
NoTime == -1

\* ------------------------------------------------------- Python primitives
Max(S) == CHOOSE x \in S : \A y \in S : y <= x

RECURSIVE SumSeq(_)
SumSeq(s) == IF s = <<>> THEN 0 ELSE Head(s) + SumSeq(Tail(s))

RECURSIVE Flat(_)
\* the concatenation of the members of a sequence of sequences
Flat(s) == IF s = <<>> THEN <<>> ELSE Head(s) \o Flat(Tail(s))

\* lists of distinct members of S, of length at most n
DistinctSeqs(S, n) ==
    UNION { { s \in [1..k -> S] : \A a, b \in 1..k : a # b => s[a] # s[b] } : k \in 0..n }

\* str(n) for 0 <= n <= 99
Digit(d) == <<"0", "1", "2", "3", "4", "5", "6", "7", "8", "9">>[d + 1]
str(n) == IF n < 10 THEN <<Digit(n)>> ELSE <<Digit(n \div 10), Digit(n % 10)>>

\* int(a/b) under true division, for a >= 0 and b > 0: truncation
PyInt(a, b) == a \div b

\* s[a:] along the first axis, a >= 0 (a slice past the end is empty)
SliceFromBad(s, a) == SubSeq(s, a + 2, Len(s))
SliceFrom(s, a) == SubSeq(s, a + 1, Len(s))

\* h[:, :, neuron]: one unit's activity, time x condition
UnitOf(h, neuron) == [t \in 1..Len(h) |-> [c \in 1..Len(h[t]) |-> h[t][c][neuron + 1]]]

\* a.max() of an array given time x condition: undefined on an empty array,
\* where numpy raises ValueError
Cells2(a) == { a[t][c] : t \in 1..Len(a), c \in 1..(IF Len(a) = 0 THEN 0 ELSE Len(a[1])) }

\* a.flatten() of a time x condition x unit array, in C order
Flatten(h) == Flat([t \in 1..Len(h) |-> Flat(h[t])])

\* np.concatenate((a, b), axis=1): defined when the other axes agree
CanConcat(a, b) == Len(a) = Len(b)
ConcatLast(a, b) == b
Concat(a, b) == [t \in 1..Len(a) |-> a[t] \o b[t]]

\* ------------------------------------------------- external collaborators
\* task.py: the rules and their display names
dm1 == <<"d", "m", "1">>
dm2 == <<"d", "m", "2">>
RuleList == <<dm1, dm2>>
Rules == { RuleList[k] : k \in 1..Len(RuleList) }
rule_name == [r \in Rules |-> IF r = dm1 THEN <<"D", "M", " ", "1">>
                                         ELSE <<"D", "M", " ", "2">>]
RuleIdx(r) == CHOOSE k \in 1..Len(RuleList) : RuleList[k] = r

stim1 == <<"s", "t", "i", "m", "1">>

\* trial.epochs['stim1'] of a trial of T timesteps, as (start, end) with None
\* for an open side: the stimulus epoch of dm1 runs from step 1 to the end of
\* the trial, that of dm2 from the start of the trial to its last step
EpochOf(rule, T) == IF rule = dm1 THEN <<1, NoTime>> ELSE <<NoTime, T - 1>>

\* generate_trials(rule, hparams, mode='test'): a trial of T timesteps and N
\* conditions; epochs is its range for stim1, the one epoch calls ask for
Trials(rule) ==
    { [rule |-> rule, T |-> T, N |-> N, epochs |-> EpochOf(rule, T)] :
        T \in 1..MaxT, N \in 1..MaxN }

\* sess.run(model.h, feed_dict): the activity of the restored network on a
\* trial, time x condition x unit
Act(rule, t, c, u) == (3 * RuleIdx(rule) + 2 * t * t + 5 * c + 3 * u * c + t * u) % 5
ForwardPass(tr) ==
    [t \in 1..tr.T |-> [c \in 1..tr.N |-> [u \in 1..NUnits |-> Act(tr.rule, t, c, u)]]]

\* hparams['dt'] of the saved model, in ms
DtValues == { 200, 300, 1000 }

\* ------------------------------------------------------------------ state
VARIABLES
    fn,        \* the function being called
    pc,        \* where the call is
    args,      \* the arguments as passed
    hparams,   \* model.hparams
    sess,      \* the tf.Session of the call: "none", "open" or "closed"
    log,       \* collaborator calls made so far, in order
    rules,     \* the rules after normalisation
    neurons,   \* the neurons after normalisation
    t_start,   \* the transient cutoff
    i,         \* position in rules of the forward-pass loop
    trial,     \* the local variable trial: the trial generated last
    passes,    \* history: per forward pass, its trial, the activity sess.run
               \* returned (raw) and the activity the loop body kept (h)
    h_tests,   \* pretty_singleneuron_plot's h_tests
    h_all,     \* activity_histogram's h_all: <<>> for None, else <<the array>>
    ni,        \* position in neurons of the plot loop
    ri,        \* position in rules of the plot loop
    h_max,     \* the current neuron's y-axis maximum
    figs,      \* the figures drawn so far
    files,     \* the paths written by savefig so far, in order
    err        \* the exception that left the call, or None

vars == <<fn, pc, args, hparams, sess, log, rules, neurons, t_start, i, trial,
          passes, h_tests, h_all, ni, ri, h_max, figs, files, err>>

NoArgs == [rules |-> None]
NoMap == [r \in {} |-> None]

Init ==
    /\ fn = None /\ pc = "idle" /\ args = NoArgs
    /\ hparams = [dt |-> 1000, num_ring |-> 2]
    /\ sess = "none" /\ log = <<>>
    /\ rules = <<>> /\ neurons = <<>> /\ t_start = 0 /\ i = 1
    /\ trial = None /\ passes = <<>> /\ h_tests = NoMap
    /\ h_all = <<>> /\ ni = 1 /\ ri = 1 /\ h_max = None
    /\ figs = <<>> /\ files = <<>> /\ err = None

\* the function arguments: a str or a list of rules, an int or a list of ints
StrArg(s) == [type |-> "str", v |-> s]
ListArg(l) == [type |-> "list", v |-> l]
IntArg(n) == [type |-> "int", v |-> n]
RulesArgs == { StrArg(r) : r \in Rules } \cup { ListArg(l) : l \in DistinctSeqs(Rules, 2) }
NeuronsArgs == { IntArg(n) : n \in 0..(NUnits - 1) }
                  \cup { ListArg(l) : l \in DistinctSeqs(0..(NUnits - 1), 2) }

\* if isinstance(rules, str): rules = [rules]
NormRulesBad(a) == IF a.type = "str" THEN [k \in 1..Len(a.v) |-> <<a.v[k]>>] ELSE a.v
NormRules(a) == IF a.type = "str" THEN <<a.v>> ELSE a.v

\* try: iter(neurons) / except TypeError: neurons = [neurons]
NormNeuronsBad(a) == IF a.type = "int" THEN <<>> ELSE a.v
NormNeurons(a) == IF a.type = "int" THEN <<a.v>> ELSE a.v

\* with tf.Session() as sess: leaving the block, by its end or by an
\* exception, runs the session's __exit__, which closes it
ExitBlockBad(s, raised) == IF raised THEN s ELSE "closed"
ExitBlock(s, raised) == "closed"

\* an exception raised by a collaborator inside the with block: it leaves the
\* block, and the call, at once
RaiseIn(f, at, what) ==
    /\ fn = f /\ pc = at
    /\ sess' = ExitBlock(sess, TRUE)
    /\ err' = what
    /\ pc' = "raised"

Put(m, k, v) == [x \in DOMAIN m \cup {k} |-> IF x = k THEN v ELSE m[x]]

\* trial = generate_trials(rule, hparams, mode='test'); sess.run(..., feed_dict):
\* the calls one forward pass adds to the calls made so far
RunPassRestoring(l, rule) ==
    l \o <<<<"restore">>, <<"generate_trials", rule>>, <<"run", rule>>>>
RunPass(l, rule) == l \o <<<<"generate_trials", rule>>, <<"run", rule>>>>

\* -------------------------------------------------- pretty_singleneuron_plot
PSP == "pretty_singleneuron_plot"

\* t_start = int(500/hparams['dt'])
TransientMs == 500
TStartBad(hp) == PyInt(TransientMs + hp.dt - 1, hp.dt)
TStart(hp) == PyInt(TransientMs, hp.dt)

\* [h_tests[r][t_start:,:,neuron].max() for r in rules]
RuleMaxes(ht, rs, t0, neuron) ==
    [k \in 1..Len(rs) |-> Max(Cells2(UnitOf(SliceFrom(ht[rs[k]], t0), neuron)))]

\* the reductions of that line raise ValueError on an empty array or list
MaxRaises(ht, rs, t0) ==
    \/ rs = <<>>
    \/ \E k \in 1..Len(rs) : Len(ht[rs[k]]) <= t0

\* h_max = np.max([... for r in rules])
HMaxFirstRule(ht, rs, t0, neuron) == RuleMaxes(ht, rs, t0, neuron)[1]
HMax(ht, rs, t0, neuron) ==
    Max({ RuleMaxes(ht, rs, t0, neuron)[k] : k \in 1..Len(rs) })

\* e0, e1 = trial.epochs[epoch], a None replaced by 0 and by shape[0]
EpochBar(tr, h) ==
    <<IF tr.epochs[1] # NoTime THEN tr.epochs[1] ELSE 0,
      IF tr.epochs[2] # NoTime THEN tr.epochs[2] ELSE Len(h)>>

\* figname of the figure of (neuron, rule); a path is the sequence of its
\* characters, the literals of the source kept whole and 'figure/' apart
FigName(neuron, rule, ep, save_name) ==
    IF ep # None
    THEN <<"figure/", "trace_">> \o rule_name[rule] \o ep \o save_name \o <<".pdf">>
    ELSE <<"figure/", "trace_unit">> \o str(neuron) \o rule_name[rule] \o save_name
            \o <<".pdf">>

\* if save: plt.savefig(figname)
SaveAlways(fs, sv, name) == Append(fs, name)
SaveFig(fs, sv, name) == IF sv THEN Append(fs, name) ELSE fs

PSP_Call(ra, na, ep, sv, dt) ==
    /\ pc = "idle"
    /\ fn' = PSP
    /\ args' = [rules |-> ra, neurons |-> na, epoch |-> ep, save |-> sv, save_name |-> <<>>]
    /\ rules' = NormRules(ra)
    /\ neurons' = NormNeurons(na)
    /\ h_tests' = NoMap
    /\ hparams' = [dt |-> dt, num_ring |-> 2]
    /\ sess' = "open"
    /\ log' = <<<<"Model">>, <<"Session">>>>
    /\ pc' = "restore"
    /\ UNCHANGED <<t_start, i, trial, passes, h_all, ni, ri, h_max, figs, files, err>>

PSP_Restore ==
    /\ fn = PSP /\ pc = "restore"
    /\ log' = Append(log, <<"restore">>)
    /\ t_start' = TStart(hparams)
    /\ i' = 1
    /\ pc' = "passes"
    /\ UNCHANGED <<fn, args, hparams, sess, rules, neurons, trial, passes,
                   h_tests, h_all, ni, ri, h_max, figs, files, err>>

PSP_Pass ==
    /\ fn = PSP /\ pc = "passes" /\ i <= Len(rules)
    /\ rules[i] \in Rules
    /\ \E tr \in Trials(rules[i]) :
          /\ trial' = tr
          /\ passes' = Append(passes, [trial |-> tr, raw |-> ForwardPass(tr),
                                        h |-> ForwardPass(tr)])
          /\ h_tests' = Put(h_tests, rules[i], ForwardPass(tr))
    /\ log' = RunPass(log, rules[i])
    /\ i' = i + 1
    /\ UNCHANGED <<fn, pc, args, hparams, sess, rules, neurons, t_start, h_all, ni, ri,
                   h_max, figs, files, err>>

PSP_Exit ==
    /\ fn = PSP /\ pc = "passes" /\ i > Len(rules)
    /\ sess' = ExitBlock(sess, FALSE)
    /\ ni' = 1
    /\ pc' = "neuron"
    /\ UNCHANGED <<fn, args, hparams, log, rules, neurons, t_start, i, trial, passes,
                   h_tests, h_all, ri, h_max, figs, files, err>>

\* restore, generate_trials, gen_feed_dict or sess.run raises
PSP_Raise ==
    /\ \/ RaiseIn(PSP, "restore", "RestoreError")
       \/ /\ i <= Len(rules)
          /\ RaiseIn(PSP, "passes", "PassError")
    /\ UNCHANGED <<fn, args, hparams, log, rules, neurons, t_start, i, trial, passes,
                   h_tests, h_all, ni, ri, h_max, figs, files>>

PSP_NeuronMax ==
    /\ fn = PSP /\ pc = "neuron" /\ ni <= Len(neurons)
    /\ IF MaxRaises(h_tests, rules, t_start)
       THEN /\ err' = "ValueError"
            /\ pc' = "raised"
            /\ UNCHANGED <<h_max, ri>>
       ELSE /\ h_max' = HMax(h_tests, rules, t_start, neurons[ni])
            /\ ri' = 1
            /\ pc' = "figure"
            /\ UNCHANGED err
    /\ UNCHANGED <<fn, args, hparams, sess, log, rules, neurons, t_start, i, trial,
                   passes, h_tests, h_all, ni, figs, files>>

PSP_Figure ==
    /\ fn = PSP /\ pc = "figure"
    /\ LET neuron == neurons[ni]
           rule == rules[ri]
           figname == FigName(neuron, rule, args.epoch, args.save_name)
           fig == [fn |-> PSP, neuron |-> neuron, rule |-> rule,
                   data |-> UnitOf(SliceFrom(h_tests[rule], t_start), neuron),
                   bar |-> IF args.epoch # None THEN EpochBar(trial, h_tests[rule])
                                                ELSE None,
                   \* plt.ylim(np.array([-0.1, 1.2])*h_max)
                   h_max |-> h_max,
                   figname |-> figname]
       IN  /\ figs' = Append(figs, fig)
           /\ files' = SaveFig(files, args.save, figname)
    /\ IF ri < Len(rules)
       THEN ri' = ri + 1 /\ UNCHANGED <<ni, pc>>
       ELSE ni' = ni + 1 /\ pc' = "neuron" /\ UNCHANGED ri
    /\ UNCHANGED <<fn, args, hparams, sess, log, rules, neurons, t_start, i, trial,
                   passes, h_tests, h_all, h_max, err>>

PSP_Return ==
    /\ fn = PSP /\ pc = "neuron" /\ ni > Len(neurons)
    /\ pc' = "done"
    /\ UNCHANGED <<fn, args, hparams, sess, log, rules, neurons, t_start, i, trial,
                   passes, h_tests, h_all, ni, ri, h_max, figs, files, err>>

PSP_Next ==
    \/ /\ pc = "idle"
       /\ \E ra \in RulesArgs, na \in NeuronsArgs, ep \in {None, stim1},
             sv \in BOOLEAN, dt \in DtValues : PSP_Call(ra, na, ep, sv, dt)
    \/ PSP_Restore
    \/ PSP_Pass
    \/ PSP_Exit
    \/ PSP_Raise
    \/ PSP_NeuronMax
    \/ PSP_Figure
    \/ PSP_Return

\* --------------------------------------------------------- activity_histogram
AH == "activity_histogram"

AH_Call(ra, dt) ==
    /\ pc = "idle"
    /\ fn' = AH
    /\ args' = [rules |-> ra]
    /\ rules' = NormRules(ra)
    /\ h_all' = <<>>
    /\ hparams' = [dt |-> dt, num_ring |-> 2]
    /\ sess' = "open"
    /\ log' = <<<<"Model">>, <<"Session">>>>
    /\ pc' = "restore"
    /\ UNCHANGED <<neurons, t_start, i, trial, passes, h_tests, ni, ri, h_max, figs,
                   files, err>>

AH_Restore ==
    /\ fn = AH /\ pc = "restore"
    /\ log' = Append(log, <<"restore">>)
    /\ t_start' = TStart(hparams)
    /\ i' = 1
    /\ pc' = "passes"
    /\ UNCHANGED <<fn, args, hparams, sess, rules, neurons, trial, passes, h_tests,
                   h_all, ni, ri, h_max, figs, files, err>>

\* one turn of the loop: the pass, h = h[t_start:, :, :], and h_all; a
\* concatenate that raises leaves the with block
AH_Pass ==
    /\ fn = AH /\ pc = "passes" /\ i <= Len(rules)
    /\ rules[i] \in Rules
    /\ \E tr \in Trials(rules[i]) :
          LET raw == ForwardPass(tr)
              h == SliceFrom(raw, t_start)
          IN  /\ trial' = tr
              /\ passes' = Append(passes, [trial |-> tr, raw |-> raw, h |-> h])
              /\ IF h_all = <<>>
                 THEN h_all' = <<h>> /\ i' = i + 1 /\ UNCHANGED <<pc, sess, err>>
                 ELSE IF CanConcat(h_all[1], h)
                 THEN /\ h_all' = <<Concat(h_all[1], h)>>
                      /\ i' = i + 1
                      /\ UNCHANGED <<pc, sess, err>>
                 ELSE /\ sess' = ExitBlock(sess, TRUE)
                      /\ err' = "ValueError"
                      /\ pc' = "raised"
                      /\ UNCHANGED <<h_all, i>>
    /\ log' = RunPass(log, rules[i])
    /\ UNCHANGED <<fn, args, hparams, rules, neurons, t_start, h_tests, ni, ri, h_max,
                   figs, files>>

AH_Exit ==
    /\ fn = AH /\ pc = "passes" /\ i > Len(rules)
    /\ sess' = ExitBlock(sess, FALSE)
    /\ pc' = "plot"
    /\ UNCHANGED <<fn, args, hparams, log, rules, neurons, t_start, i, trial, passes,
                   h_tests, h_all, ni, ri, h_max, figs, files, err>>

AH_Raise ==
    /\ \/ RaiseIn(AH, "restore", "RestoreError")
       \/ /\ i <= Len(rules)
          /\ RaiseIn(AH, "passes", "PassError")
    /\ UNCHANGED <<fn, args, hparams, log, rules, neurons, t_start, i, trial, passes,
                   h_tests, h_all, ni, ri, h_max, figs, files>>

\* h_plot = h_all.flatten() and the histogram of it; None has no flatten
AH_Plot ==
    /\ fn = AH /\ pc = "plot"
    /\ IF h_all = <<>>
       THEN err' = "AttributeError" /\ pc' = "raised" /\ UNCHANGED figs
       ELSE /\ figs' = Append(figs, [fn |-> AH, h_plot |-> Flatten(h_all[1])])
            /\ pc' = "done"
            /\ UNCHANGED err
    /\ UNCHANGED <<fn, args, hparams, sess, log, rules, neurons, t_start, i, trial,
                   passes, h_tests, h_all, ni, ri, h_max, files>>

AH_Next ==
    \/ /\ pc = "idle"
       /\ \E ra \in RulesArgs, dt \in DtValues : AH_Call(ra, dt)
    \/ AH_Restore
    \/ AH_Pass
    \/ AH_Exit
    \/ AH_Raise
    \/ AH_Plot

\* ----------------------------------------------------- pretty_inputoutput_plot
IO == "pretty_inputoutput_plot"

\* hparams['num_ring'] of the saved model
NumRings == { 1, 2, 3 }

\* assert hparams['num_ring'] == 2
TwoRingsOrMore(hp) == hp.num_ring >= 2
TwoRings(hp) == hp.num_ring = 2

\* for i in range(5), one panel per label
NPanels == 5
ylabels == <<"fix. in", "stim. mod1", "stim. mod2", "fix. out", "out">>

\* s.replace(' ', '')
NoSpaces(s) == SelectSeq(s, LAMBDA ch : ch # " ")

\* save_name = 'figure/sample_'+rule_name[rule].replace(' ','')+'.pdf'
SampleName(rule) == <<"figure/", "sample_">> \o NoSpaces(rule_name[rule]) \o <<".pdf">>

IO_Call(rule, sv, nr, dt) ==
    /\ pc = "idle"
    /\ fn' = IO
    /\ args' = [rule |-> rule, save |-> sv]
    /\ hparams' = [dt |-> dt, num_ring |-> nr]
    /\ sess' = "open"
    /\ log' = <<<<"Model">>, <<"Session">>>>
    /\ pc' = "restore"
    /\ UNCHANGED <<rules, neurons, t_start, i, trial, passes, h_tests, h_all, ni, ri,
                   h_max, figs, files, err>>

IO_Restore ==
    /\ fn = IO /\ pc = "restore"
    /\ log' = Append(log, <<"restore">>)
    /\ pc' = "pass"
    /\ UNCHANGED <<fn, args, hparams, sess, rules, neurons, t_start, i, trial, passes,
                   h_tests, h_all, ni, ri, h_max, figs, files, err>>

IO_Pass ==
    /\ fn = IO /\ pc = "pass"
    /\ \E tr \in Trials(args.rule) : trial' = tr
    /\ log' = RunPass(log, args.rule)
    /\ pc' = "assert"
    /\ UNCHANGED <<fn, args, hparams, sess, rules, neurons, t_start, i, passes, h_tests,
                   h_all, ni, ri, h_max, figs, files, err>>

\* the assertion and, past it, fig = plt.figure(...)
IO_Assert ==
    /\ fn = IO /\ pc = "assert"
    /\ IF TwoRings(hparams)
       THEN /\ figs' = Append(figs, [fn |-> IO, rule |-> args.rule, panels |-> <<>>])
            /\ i' = 0
            /\ pc' = "panels"
            /\ UNCHANGED <<sess, err>>
       ELSE /\ RaiseIn(IO, "assert", "AssertionError")
            /\ UNCHANGED <<figs, i>>
    /\ UNCHANGED <<fn, args, hparams, log, rules, neurons, t_start, trial, passes,
                   h_tests, h_all, ni, ri, h_max, files>>

IO_Panel ==
    /\ fn = IO /\ pc = "panels" /\ i < NPanels
    /\ figs' = [figs EXCEPT ![Len(figs)].panels = Append(@, ylabels[i + 1])]
    /\ i' = i + 1
    /\ UNCHANGED <<fn, pc, args, hparams, sess, log, rules, neurons, t_start, trial,
                   passes, h_tests, h_all, ni, ri, h_max, files, err>>

\* if save: savefig; plt.show(); and the end of the with block
IO_Save ==
    /\ fn = IO /\ pc = "panels" /\ i = NPanels
    /\ files' = SaveFig(files, args.save, SampleName(args.rule))
    /\ sess' = ExitBlock(sess, FALSE)
    /\ pc' = "done"
    /\ UNCHANGED <<fn, args, hparams, log, rules, neurons, t_start, i, trial, passes,
                   h_tests, h_all, ni, ri, h_max, figs, err>>

IO_Raise ==
    /\ \/ RaiseIn(IO, "restore", "RestoreError")
       \/ RaiseIn(IO, "pass", "PassError")
    /\ UNCHANGED <<fn, args, hparams, log, rules, neurons, t_start, i, trial, passes,
                   h_tests, h_all, ni, ri, h_max, figs, files>>

IO_Next ==
    \/ /\ pc = "idle"
       /\ \E rule \in Rules, sv \in BOOLEAN, nr \in NumRings, dt \in DtValues :
             IO_Call(rule, sv, nr, dt)
    \/ IO_Restore
    \/ IO_Pass
    \/ IO_Assert
    \/ IO_Panel
    \/ IO_Save
    \/ IO_Raise

\* ------------------------------------------------------ easy_connectivity_plot
EC == "easy_connectivity_plot"

\* the trainable variables a network may have: name and shape
VarPool == { [name |-> "rnn/kernel", shape |-> <<3, 2>>],
             [name |-> "rnn/bias", shape |-> <<2>>],
             [name |-> "output/kernel", shape |-> <<2, 2>>],
             [name |-> "gain", shape |-> <<>>],
             [name |-> "conv/kernel", shape |-> <<2, 2, 2>>] }

\* model.var_list
VarLists == DistinctSeqs(VarPool, MaxVars)

\* if len(param.shape) != 2: continue
SkippedBelowTwo(param) == Len(param.shape) < 2
Skipped(param) == Len(param.shape) # 2

\* param.T of a matrix
Transposed(shape) == <<shape[2], shape[1]>>

EC_Call(vl) ==
    /\ pc = "idle"
    /\ fn' = EC
    /\ args' = [var_list |-> vl]
    /\ sess' = "open"
    /\ log' = <<<<"Model">>, <<"Session">>>>
    /\ pc' = "restore"
    /\ UNCHANGED <<hparams, rules, neurons, t_start, i, trial, passes, h_tests, h_all,
                   ni, ri, h_max, figs, files, err>>

EC_Restore ==
    /\ fn = EC /\ pc = "restore"
    /\ log' = Append(log, <<"restore">>)
    /\ pc' = "eval"
    /\ UNCHANGED <<fn, args, hparams, sess, rules, neurons, t_start, i, trial, passes,
                   h_tests, h_all, ni, ri, h_max, figs, files, err>>

\* params = [sess.run(var) for var in var_list] and the names
EC_Eval ==
    /\ fn = EC /\ pc = "eval"
    /\ log' = log \o [k \in 1..Len(args.var_list) |-> <<"run", args.var_list[k].name>>]
    /\ pc' = "exit"
    /\ UNCHANGED <<fn, args, hparams, sess, rules, neurons, t_start, i, trial, passes,
                   h_tests, h_all, ni, ri, h_max, figs, files, err>>

EC_Exit ==
    /\ fn = EC /\ pc = "exit"
    /\ sess' = ExitBlock(sess, FALSE)
    /\ i' = 1
    /\ pc' = "plot"
    /\ UNCHANGED <<fn, args, hparams, log, rules, neurons, t_start, trial, passes,
                   h_tests, h_all, ni, ri, h_max, figs, files, err>>

EC_Raise ==
    /\ \/ RaiseIn(EC, "restore", "RestoreError")
       \/ /\ fn = EC /\ args.var_list # <<>>
          /\ RaiseIn(EC, "eval", "RunError")
    /\ UNCHANGED <<fn, args, hparams, log, rules, neurons, t_start, i, trial, passes,
                   h_tests, h_all, ni, ri, h_max, figs, files>>

\* one turn of for param, name in zip(params, names)
EC_Plot ==
    /\ fn = EC /\ pc = "plot" /\ i <= Len(args.var_list)
    /\ LET param == args.var_list[i]
       IN  figs' = IF Skipped(param) THEN figs
                   ELSE Append(figs, [fn |-> EC, title |-> param.name,
                                      shape |-> Transposed(param.shape)])
    /\ i' = i + 1
    /\ UNCHANGED <<fn, pc, args, hparams, sess, log, rules, neurons, t_start, trial,
                   passes, h_tests, h_all, ni, ri, h_max, files, err>>

EC_Return ==
    /\ fn = EC /\ pc = "plot" /\ i > Len(args.var_list)
    /\ pc' = "done"
    /\ UNCHANGED <<fn, args, hparams, sess, log, rules, neurons, t_start, i, trial,
                   passes, h_tests, h_all, ni, ri, h_max, figs, files, err>>

EC_Next ==
    \/ /\ pc = "idle"
       /\ \E vl \in VarLists : EC_Call(vl)
    \/ EC_Restore
    \/ EC_Eval
    \/ EC_Exit
    \/ EC_Raise
    \/ EC_Plot
    \/ EC_Return

\* ---------------------------------------------------------- easy_activity_plot
EA == "easy_activity_plot"

EA_titles == <<"input", "recurrent", "output">>

EA_Call(rule, dt) ==
    /\ pc = "idle"
    /\ fn' = EA
    /\ args' = [rule |-> rule]
    /\ hparams' = [dt |-> dt, num_ring |-> 2]
    /\ sess' = "open"
    /\ log' = <<<<"Model">>, <<"Session">>>>
    /\ pc' = "restore"
    /\ UNCHANGED <<rules, neurons, t_start, i, trial, passes, h_tests, h_all, ni, ri,
                   h_max, figs, files, err>>

EA_Restore ==
    /\ fn = EA /\ pc = "restore"
    /\ log' = Append(log, <<"restore">>)
    /\ pc' = "pass"
    /\ UNCHANGED <<fn, args, hparams, sess, rules, neurons, t_start, i, trial, passes,
                   h_tests, h_all, ni, ri, h_max, figs, files, err>>

\* the pass, and the end of the with block
EA_Pass ==
    /\ fn = EA /\ pc = "pass"
    /\ \E tr \in Trials(args.rule) : trial' = tr
    /\ log' = RunPass(log, args.rule)
    /\ sess' = ExitBlock(sess, FALSE)
    /\ i' = 1
    /\ pc' = "plot"
    /\ UNCHANGED <<fn, args, hparams, rules, neurons, t_start, passes, h_tests, h_all,
                   ni, ri, h_max, figs, files, err>>

EA_Raise ==
    /\ \/ RaiseIn(EA, "restore", "RestoreError")
       \/ RaiseIn(EA, "pass", "PassError")
    /\ UNCHANGED <<fn, args, hparams, log, rules, neurons, t_start, i, trial, passes,
                   h_tests, h_all, ni, ri, h_max, figs, files>>

\* one turn of for activity, title in zip([trial.x, h, y_hat], [...])
EA_Plot ==
    /\ fn = EA /\ pc = "plot"
    /\ figs' = Append(figs, [fn |-> EA, title |-> EA_titles[i]])
    /\ IF i < Len(EA_titles) THEN i' = i + 1 /\ UNCHANGED pc
                             ELSE pc' = "done" /\ UNCHANGED i
    /\ UNCHANGED <<fn, args, hparams, sess, log, rules, neurons, t_start, trial, passes,
                   h_tests, h_all, ni, ri, h_max, files, err>>

EA_Next ==
    \/ /\ pc = "idle"
       /\ \E rule \in Rules, dt \in DtValues : EA_Call(rule, dt)
    \/ EA_Restore
    \/ EA_Pass
    \/ EA_Raise
    \/ EA_Plot

\* -------------------------------------------------------------- schematic_plot
SP == "schematic_plot"

\* the four figures, each saved under its fixed name
SP_files == << <<"figure/", "schematic_input.pdf">>, <<"figure/", "schematic_rule.pdf">>,
               <<"figure/", "schematic_units.pdf">>,
               <<"figure/", "schematic_outputs.pdf">> >>

\* rule = rule or 'dm1', the argument given as <<>> for None, else <<rule>>
RuleOr(a) == IF a = <<>> \/ a[1] = <<>> THEN dm1 ELSE a[1]

\* Model(model_dir, dt=1)
SP_Call(a) ==
    /\ pc = "idle"
    /\ fn' = SP
    /\ args' = [rule |-> RuleOr(a)]
    /\ hparams' = [dt |-> 1, num_ring |-> 2]
    /\ sess' = "open"
    /\ log' = <<<<"Model">>, <<"Session">>>>
    /\ pc' = "restore"
    /\ UNCHANGED <<rules, neurons, t_start, i, trial, passes, h_tests, h_all, ni, ri,
                   h_max, figs, files, err>>

SP_Restore ==
    /\ fn = SP /\ pc = "restore"
    /\ log' = Append(log, <<"restore">>)
    /\ pc' = "pass"
    /\ UNCHANGED <<fn, args, hparams, sess, rules, neurons, t_start, i, trial, passes,
                   h_tests, h_all, ni, ri, h_max, figs, files, err>>

\* the pass on one trial of t_tot=1000, and the end of the with block
SP_Pass ==
    /\ fn = SP /\ pc = "pass"
    /\ log' = RunPass(log, args.rule)
    /\ sess' = ExitBlock(sess, FALSE)
    /\ i' = 1
    /\ pc' = "plot"
    /\ UNCHANGED <<fn, args, hparams, rules, neurons, t_start, trial, passes, h_tests,
                   h_all, ni, ri, h_max, figs, files, err>>

SP_Raise ==
    /\ \/ RaiseIn(SP, "restore", "RestoreError")
       \/ RaiseIn(SP, "pass", "PassError")
    /\ UNCHANGED <<fn, args, hparams, log, rules, neurons, t_start, i, trial, passes,
                   h_tests, h_all, ni, ri, h_max, figs, files>>

\* one of the four figures: drawn, then plt.savefig(...) whatever the arguments
SP_Plot ==
    /\ fn = SP /\ pc = "plot"
    /\ figs' = Append(figs, [fn |-> SP, figname |-> SP_files[i]])
    /\ files' = Append(files, SP_files[i])
    /\ IF i < Len(SP_files) THEN i' = i + 1 /\ UNCHANGED pc
                            ELSE pc' = "done" /\ UNCHANGED i
    /\ UNCHANGED <<fn, args, hparams, sess, log, rules, neurons, t_start, trial, passes,
                   h_tests, h_all, ni, ri, h_max, err>>

SP_Next ==
    \/ /\ pc = "idle"
       /\ \E a \in {<<>>} \cup { <<r>> : r \in Rules \cup {<<>>} } : SP_Call(a)
    \/ SP_Restore
    \/ SP_Pass
    \/ SP_Raise
    \/ SP_Plot

Next == PSP_Next \/ AH_Next \/ IO_Next \/ EC_Next \/ EA_Next \/ SP_Next

Spec == Init /\ [][Next]_vars

\* ------------------------------------------------------------------ claims
PSPFigs == { k \in 1..Len(figs) : fn = PSP }
Natural(n) == IF n >= 0 THEN n ELSE 0

\* the cutoff is int(500/dt): the largest t0 with t0 * dt <= 500
CutoffIsTruncated ==
    /\ t_start * hparams.dt <= 500
    /\ 500 < (t_start + 1) * hparams.dt

\* kept is orig without its first t0 timesteps, the rest unchanged, in order
DropsLeading(kept, orig, t0, len) ==
    /\ Len(kept) = len
    /\ \A k \in 1..Len(kept) : kept[k] = orig[t0 + k]

\* C1 as stated: in activity_histogram and pretty_singleneuron_plot the discard
\* with t0 = int(500/dt) leaves T - t0 timesteps of every rule's activity, the
\* k-th of them the (t0 + k)-th of the original
C1_AsStated ==
    /\ fn = AH =>
         \A k \in 1..Len(passes) :
            /\ CutoffIsTruncated
            /\ DropsLeading(passes[k].h, passes[k].raw, t_start, passes[k].trial.T - t_start)
    /\ \A k \in PSPFigs :
         /\ CutoffIsTruncated
         /\ DropsLeading(figs[k].data, UnitOf(h_tests[figs[k].rule], figs[k].neuron),
                         t_start, Len(h_tests[figs[k].rule]) - t_start)

\* C1, amended: the discard with t0 = int(500/dt) leaves the timesteps from t0
\* on, unchanged and in order: T - t0 of them when the activity has at least t0
\* timesteps, and none when it is shorter
C1_TransientDiscard ==
    /\ fn = AH =>
         \A k \in 1..Len(passes) :
            /\ CutoffIsTruncated
            /\ DropsLeading(passes[k].h, passes[k].raw, t_start,
                            Natural(passes[k].trial.T - t_start))
    /\ \A k \in PSPFigs :
         /\ CutoffIsTruncated
         /\ DropsLeading(figs[k].data, UnitOf(h_tests[figs[k].rule], figs[k].neuron),
                         t_start, Natural(Len(h_tests[figs[k].rule]) - t_start))

\* a histogram call that dropped two timesteps of a second rule and kept one
C1_Witness ==
    /\ fn = AH /\ Len(passes) = 2 /\ t_start = 2
    /\ Len(passes[2].raw) = 3 /\ Len(passes[2].h) = 1

\* the post-transient activity of one neuron over all rules, conditions and
\* retained timesteps
PostTransientOf(neuron) ==
    UNION { UNION { { h_tests[rules[r]][t][c][neuron + 1] :
                        c \in 1..Len(h_tests[rules[r]][t]) } :
                    t \in (t_start + 1)..Len(h_tests[rules[r]]) } :
            r \in 1..Len(rules) }

\* C2: every figure of pretty_singleneuron_plot takes its y-limits from the
\* maximum of its neuron's post-transient activity over all requested rules,
\* conditions and retained timesteps: one maximum per neuron, shared by the
\* figures of all rules
C2_SharedYMax ==
    \A k \in PSPFigs :
       /\ figs[k].h_max \in PostTransientOf(figs[k].neuron)
       /\ \A v \in PostTransientOf(figs[k].neuron) : v <= figs[k].h_max

\* two neurons and two rules drawn: the first neuron's two figures share a
\* maximum that the first rule alone does not reach, the second neuron's
\* maximum is another
C2_Witness ==
    /\ fn = PSP /\ pc = "done" /\ Len(figs) = 4
    /\ figs[1].neuron = figs[2].neuron /\ figs[1].rule # figs[2].rule
    /\ figs[1].h_max = figs[2].h_max
    /\ \A t \in 1..Len(figs[1].data) : \A c \in 1..Len(figs[1].data[t]) :
          figs[1].data[t][c] < figs[1].h_max
    /\ figs[3].h_max # figs[1].h_max

\* C3: pretty_inputoutput_plot with a ring count other than 2 ends in an
\* error before any figure, panel or file exists, whatever the save flag; with
\* a ring count of 2 the assertion does not fail and a call that completes has
\* drawn the five panels
C3_TwoRingPrecondition ==
    fn = IO =>
       /\ hparams.num_ring # 2 =>
            /\ figs = <<>> /\ files = <<>>
            /\ pc \in {"restore", "pass", "assert", "raised"}
       /\ hparams.num_ring = 2 => err # "AssertionError"
       /\ pc = "done" => Len(figs) = 1 /\ figs[1].panels = ylabels

\* a call asked to save, of a model with three rings, left by the assertion
C3_Witness ==
    /\ fn = IO /\ args.save /\ hparams.num_ring = 3
    /\ err = "AssertionError" /\ pc = "raised"

\* the names of the parameters with two axes, in list order
TwoAxisNames(vl) ==
    LET two == SelectSeq(vl, LAMBDA v : Len(v.shape) = 2)
    IN  [k \in 1..Len(two) |-> two[k].name]

\* C4: easy_connectivity_plot draws, in list order and each once under its own
\* name, exactly the parameters with two axes among those the loop has passed,
\* and goes on past every other parameter to the end of the list
C4_ConnectivityFilter ==
    fn = EC =>
       /\ [k \in 1..Len(figs) |-> figs[k].title]
             = TwoAxisNames(SubSeq(args.var_list, 1, IF pc \in {"plot", "done"} THEN i - 1 ELSE 0))
       /\ pc = "done" => i = Len(args.var_list) + 1

\* a bias first, a matrix in the middle and a three-axis parameter last: one
\* heatmap, of the matrix
C4_Witness ==
    /\ fn = EC /\ pc = "done" /\ Len(args.var_list) = 3
    /\ Len(args.var_list[1].shape) = 1
    /\ Len(args.var_list[2].shape) = 2
    /\ Len(args.var_list[3].shape) = 3
    /\ Len(figs) = 1 /\ figs[1].title = args.var_list[2].name

HasSaveFlag == fn \in {IO, PSP}
UnderFigureDir == \A k \in 1..Len(files) : files[k][1] = "figure/"
\* with save=True the two pretty functions write every figure they complete
SavedWhenAsked ==
    /\ fn = PSP /\ args.save => Len(files) = Len(figs)
    /\ fn = IO /\ args.save /\ pc = "done" => Len(files) = 1

\* C5 as stated: no call without a save flag set to true writes a file,
\* schematic_plot among them, and the pretty functions with save=True write
\* their figures under figure/
C5_AsStated ==
    /\ (fn \in {EA, EC, AH, SP} \/ (HasSaveFlag /\ ~args.save)) => files = <<>>
    /\ UnderFigureDir
    /\ SavedWhenAsked

\* C5, amended: easy_activity_plot, easy_connectivity_plot, activity_histogram
\* and the pretty functions called with save=False write no file; the pretty
\* functions called with save=True write each figure they complete;
\* schematic_plot, which has no save flag, writes each of its four figures;
\* and every file written is under figure/
C5_SaveOnlyWhenAsked ==
    /\ (fn \in {EA, EC, AH} \/ (HasSaveFlag /\ ~args.save)) => files = <<>>
    /\ UnderFigureDir
    /\ SavedWhenAsked
    /\ fn = SP => Len(files) = Len(figs)
    /\ fn = SP /\ pc = "done" => Len(files) = 4

\* a saving call of pretty_singleneuron_plot that has written two figures
C5_Witness ==
    /\ fn = PSP /\ args.save /\ pc = "done"
    /\ Len(figs) = 2 /\ Len(files) = 2

\* the places of a call inside its with block
BlockPcs == {"restore", "passes", "pass", "assert", "panels", "eval", "exit"}

\* C6: the session a call opened is open only while the call is inside its
\* with block: once the block is left, by its end or by an exception of
\* restore, trial generation, the forward pass or the assertion, it is closed
C6_SessionReleased ==
    fn # None => IF pc \in BlockPcs THEN sess = "open" ELSE sess = "closed"

\* the second forward pass of a call raised, and the session is closed
C6_Witness ==
    /\ fn = PSP /\ err = "PassError" /\ Len(passes) = 1 /\ Len(rules) = 2
    /\ pc = "raised" /\ sess = "closed"

\* the trial generated for a rule: that of its latest forward pass
TrialFor(rule) ==
    passes[Max({ k \in 1..Len(passes) : passes[k].trial.rule = rule })].trial

\* C7: with an epoch requested, the bar of every figure of
\* pretty_singleneuron_plot runs from the start to the end of that epoch in the
\* trial generated for the figure's own rule, a None start replaced by 0 and a
\* None end by the length of that rule's activity array
C7_EpochBarOfOwnTrial ==
    \A k \in PSPFigs :
       args.epoch # None =>
          LET ep == TrialFor(figs[k].rule).epochs
          IN  /\ figs[k].bar[1] = IF ep[1] = NoTime THEN 0 ELSE ep[1]
              /\ figs[k].bar[2] = IF ep[2] = NoTime THEN Len(h_tests[figs[k].rule])
                                                    ELSE ep[2]

RECURSIVE BagOfSeq(_)
BagOfSeq(s) == IF s = <<>> THEN EmptyBag ELSE SetToBag({Head(s)}) (+) BagOfSeq(Tail(s))

RECURSIVE BagSum(_)
BagSum(bs) == IF bs = <<>> THEN EmptyBag ELSE Head(bs) (+) BagSum(Tail(bs))

\* the cells of a time x condition x unit array, as a bag
Cells3(h) ==
    BagSum([t \in 1..Len(h) |-> BagSum([c \in 1..Len(h[t]) |-> BagOfSeq(h[t][c])])])

\* C8: the array activity_histogram hands to the histogram has as many elements
\* as the post-transient activities of all the rules of the list together, one
\* pass per rule in list order, and holds the same values as often: no rule's
\* activity is dropped or counted twice
C8_ConcatPreservesCount ==
    fn = AH /\ figs # <<>> =>
       /\ Len(passes) = Len(rules)
       /\ \A k \in 1..Len(rules) : passes[k].trial.rule = rules[k]
       /\ Len(figs[1].h_plot)
             = SumSeq([k \in 1..Len(passes) |->
                         Natural(passes[k].trial.T - t_start) * passes[k].trial.N * NUnits])
       /\ BagOfSeq(figs[1].h_plot) = BagSum([k \in 1..Len(passes) |-> Cells3(passes[k].h)])

\* the histogram of two rules with batches of different sizes
C8_Witness ==
    /\ fn = AH /\ pc = "done" /\ Len(passes) = 2
    /\ passes[1].trial.N # passes[2].trial.N
    /\ Len(figs[1].h_plot) > 0

\* the list a call with these arguments is to behave as called with
AsList(a) == IF a.type = "list" THEN a.v ELSE <<a.v>>

\* C9: a call of pretty_singleneuron_plot or activity_histogram with the rule
\* string r runs the passes of the call with [r], and a call of
\* pretty_singleneuron_plot with the neuron index n draws the figures of the
\* call with [n]; lists are used as given: the passes follow the rule list and
\* the figures follow the neuron list, each neuron with the rules in order
C9_ScalarsAsLists ==
    /\ fn \in {PSP, AH} =>
         /\ rules = AsList(args.rules)
         /\ Len(passes) <= Len(AsList(args.rules))
         /\ \A k \in 1..Len(passes) : passes[k].trial.rule = AsList(args.rules)[k]
         /\ pc \in {"neuron", "figure", "plot", "done"} =>
               Len(passes) = Len(AsList(args.rules))
    /\ fn = PSP =>
         /\ neurons = AsList(args.neurons)
         /\ \A k \in 1..Len(figs) :
               LET nr == Len(AsList(args.rules))
               IN  /\ figs[k].neuron = AsList(args.neurons)[((k - 1) \div nr) + 1]
                   /\ figs[k].rule = AsList(args.rules)[((k - 1) % nr) + 1]
         /\ pc = "done" =>
               Len(figs) = Len(AsList(args.neurons)) * Len(AsList(args.rules))

\* a call with one rule string and one neuron index, returned with its figure
C9_Witness ==
    /\ fn = PSP /\ pc = "done"
    /\ args.rules.type = "str" /\ args.neurons.type = "int"
    /\ Len(passes) = 1 /\ Len(figs) = 1

\* C10: a saving call of pretty_singleneuron_plot writes every figure to a
\* path of its own, with an epoch requested and without
C10_OwnPathPerFigure ==
    fn = PSP /\ args.save =>
       \A a, b \in 1..Len(files) : a # b => files[a] # files[b]

\* the calls of this name among the calls made so far, in order
CallsOf(l, name) == SelectSeq(l, LAMBDA e : e[1] = name)

\* what the forward passes and parameter evaluations made so far were run on
RanOn(l) == [k \in 1..Len(CallsOf(l, "run")) |-> CallsOf(l, "run")[k][2]]

\* one session, at most one restore and it after the session is opened, no
\* pass or evaluation before the restore; in the two functions that take a rule
\* list the passes follow the list, one per rule, whatever the neurons are
CallOrder ==
    fn # None =>
       /\ Len(CallsOf(log, "Session")) = 1
       /\ Len(CallsOf(log, "restore")) <= 1
       /\ pc \notin {"restore", "raised"} => Len(CallsOf(log, "restore")) = 1
       /\ \A k \in 1..Len(log) :
             /\ log[k][1] = "restore" => \E j \in 1..(k - 1) : log[j][1] = "Session"
             /\ log[k][1] \in {"generate_trials", "run"} =>
                   \E j \in 1..(k - 1) : log[j][1] = "restore"
       /\ fn \in {PSP, AH} =>
             /\ Len(RanOn(log)) <= Len(rules)
             /\ RanOn(log) = SubSeq(rules, 1, Len(RanOn(log)))
             /\ pc \in {"neuron", "figure", "plot", "done"} => RanOn(log) = rules

\* a step of a call that restores, generates a trial, runs a pass or evaluates
\* a parameter is taken with the session of the call open
InOpenSession == pc # "idle" /\ log' # log => sess = "open"

\* C11: every analysis function opens one session per call, restores the model
\* once, after the session is opened and before any forward pass or parameter
\* evaluation, and makes every pass and evaluation while the session is open;
\* pretty_singleneuron_plot and activity_histogram run one forward pass per
\* entry of the rule list, in list order, whatever the number of neurons
C11_OneSessionOneRestore == []CallOrder /\ [][InOpenSession]_vars

\* a call of pretty_singleneuron_plot with two rules and two neurons, returned
\* with four figures after two passes
C11_Witness ==
    /\ fn = PSP /\ pc = "done"
    /\ Len(rules) = 2 /\ Len(neurons) = 2 /\ Len(figs) = 4
    /\ RanOn(log) = rules
    /\ Len(CallsOf(log, "restore")) = 1

====
